---- MODULE Spec2Model ----
(***************************************************************************)
(* Linear and quadratic combinations of circuit variables over a prime     *)
(* field, zokrates_core/src/ir/expression.rs.                              *)
(*                                                                         *)
(* LinComb<T> is a HashMap<Variable, T>; it is modelled as a function      *)
(* whose domain is the set of keys of the map.  Structural equality of two *)
(* maps (derive(PartialEq)) is equality of the functions.  A `for` loop    *)
(* over a HashMap visits the keys in an unspecified order: every operator  *)
(* that iterates takes the order as an argument and the actions draw it.   *)
(***************************************************************************)
EXTENDS Integers, Sequences, FiniteSets

\* Modulus of the coefficient field (FieldPrime is the integers modulo a
\* large prime; the model uses a small modulus).
Prime == 3

\* The ordinary variables the tests of expression.rs use.
V42 == 42
V33 == 33

----------------------------------------------------------------------------
\* Field capability (zokrates_field::field::Field)

Field == 0 .. (Prime - 1)

FZero == 0

FOne == 1 % Prime

FAdd(x, y) == (x + y) % Prime

FSub(x, y) == (x + Prime - y) % Prime

\* FieldPrime::from(i32), the conversion behind `mult.into()`
FromInt(n) == n % Prime

\* Integers a caller hands to summand: every residue, and one that wraps
Mults == 0 .. Prime

\* Those that are not zero in the field
NonZeroMults == {m \in Mults : FromInt(m) # FZero}

----------------------------------------------------------------------------
\* Variable capability (ir::variable::Variable)

VariableOne == [kind |-> "One", id |-> 0]

Private(n) == [kind |-> "Private", id |-> n]

Variable == {VariableOne, Private(V42), Private(V33)}

\* The orders in which a HashMap may hand out its keys
IterationOrders ==
    {s \in [1 .. Cardinality(Variable) -> Variable] :
        \A i, j \in 1 .. Cardinality(Variable) : s[i] = s[j] => i = j}

----------------------------------------------------------------------------
\* HashMap<Variable, T>

\* HashMap::new()
EmptyMap == [k \in {} |-> FZero]

\* HashMap::insert(k, v)
Insert(m, k, v) == [x \in (DOMAIN m) \cup {k} |-> IF x = k THEN v ELSE m[x]]

\* HashMap::remove(&k)
Remove(m, k) == [x \in (DOMAIN m) \ {k} |-> m[x]]

\* res.get(&k).unwrap_or(&T::zero())
GetOrZero(m, k) == IF k \in DOMAIN m THEN m[k] ELSE FZero

\* The keys of m in the order the iterator yields them under ord
Keys(m, ord) == SelectSeq(ord, LAMBDA k : k \in DOMAIN m)

----------------------------------------------------------------------------
\* LinComb<T>

\* LinComb::summand(mult, var)
summand(mult, var) == Insert(EmptyMap, var, FromInt(mult))

\* LinComb::one()
one == summand(1, VariableOne)

\* impl From<Variable> for LinComb<T>
LinCombFrom(v) == Insert(EmptyMap, v, FOne)

\* impl Zero for LinComb<T>: zero()
zero == EmptyMap

\* impl Zero for LinComb<T>: is_zero()
is_zero(lc) == Cardinality(DOMAIN lc) = 0

\* One iteration of the loop of add
AddStep(res, k, v) ==
    LET new_val == FAdd(v, GetOrZero(res, k))
    IN  IF new_val = FZero THEN Remove(res, k) ELSE Insert(res, k, new_val)

RECURSIVE AddLoop(_, _, _)
AddLoop(res, other, keys) ==
    IF keys = << >> THEN res
    ELSE AddLoop(AddStep(res, Head(keys), other[Head(keys)]), other, Tail(keys))

\* A bug: the zero sum is stored instead of the key being removed
RECURSIVE AddLoopKeepZero(_, _, _)
AddLoopKeepZero(res, other, keys) ==
    IF keys = << >> THEN res
    ELSE AddLoopKeepZero(
             Insert(res, Head(keys), FAdd(other[Head(keys)], GetOrZero(res, Head(keys)))),
             other, Tail(keys))

addKeepZero(self, other, ord) == AddLoopKeepZero(self, other, Keys(other, ord))

\* impl Add<LinComb<T>> for LinComb<T>: add
add(self, other, ord) == AddLoop(self, other, Keys(other, ord))

\* One iteration of the loop of sub
SubStep(res, k, v) ==
    LET new_val == FAdd(FSub(FZero, v), GetOrZero(res, k))
    IN  IF new_val = FZero THEN Remove(res, k) ELSE Insert(res, k, new_val)

RECURSIVE SubLoop(_, _, _)
SubLoop(res, other, keys) ==
    IF keys = << >> THEN res
    ELSE SubLoop(SubStep(res, Head(keys), other[Head(keys)]), other, Tail(keys))

\* A bug: the cancelled key is kept with an explicit zero
RECURSIVE SubLoopKeepZero(_, _, _)
SubLoopKeepZero(res, other, keys) ==
    IF keys = << >> THEN res
    ELSE SubLoopKeepZero(
             Insert(res, Head(keys),
                    FAdd(FSub(FZero, other[Head(keys)]), GetOrZero(res, Head(keys)))),
             other, Tail(keys))

subKeepZero(self, other, ord) == SubLoopKeepZero(self, other, Keys(other, ord))

\* A bug: the negation is forgotten, sub adds
subAdds(self, other, ord) == AddLoop(self, other, Keys(other, ord))

\* impl Sub<LinComb<T>> for LinComb<T>: sub
sub(self, other, ord) == SubLoop(self, other, Keys(other, ord))

----------------------------------------------------------------------------
\* QuadComb<T>

\* QuadComb::from_linear_combinations(left, right)
from_linear_combinations(left, right) == [left |-> left, right |-> right]

\* A bug: the factors are swapped
QuadFromLinCombSwapped(lc) == from_linear_combinations(lc, one)

\* impl From<LinComb<T>> for QuadComb<T>
QuadFromLinComb(lc) == from_linear_combinations(one, lc)

\* impl From<Variable> for QuadComb<T>
QuadFromVariable(v) == QuadFromLinComb(LinCombFrom(v))

----------------------------------------------------------------------------
\* A caller: two operands a and b built through the public interface, the
\* operation applied to them and its results.

VARIABLES a, b, c, op, res, res2, quad, qvar, flag

vars == <<a, b, c, op, res, res2, quad, qvar, flag>>

NoQuad == from_linear_combinations(zero, zero)

Results(o, r, r2, cc, q, qv, f) ==
    /\ op' = o
    /\ res' = r
    /\ res2' = r2
    /\ c' = cc
    /\ quad' = q
    /\ qvar' = qv
    /\ flag' = f

NoResults == Results("none", zero, zero, zero, NoQuad, VariableOne, FALSE)

Bind(r, lc) ==
    /\ r \in {"a", "b"}
    /\ a' = IF r = "a" THEN lc ELSE a
    /\ b' = IF r = "b" THEN lc ELSE b
    /\ NoResults

Init ==
    /\ a = zero
    /\ b = zero
    /\ c = zero
    /\ op = "none"
    /\ res = zero
    /\ res2 = zero
    /\ quad = NoQuad
    /\ qvar = VariableOne
    /\ flag = FALSE

\* let r = LinComb::zero()
Zero(r) == op = "none" /\ Bind(r, zero)

\* let r = LinComb::one()
One(r) == op = "none" /\ Bind(r, one)

\* let r: LinComb = v.into()
FromVariable(r, v) == op = "none" /\ Bind(r, LinCombFrom(v))

\* let r = LinComb::summand(m, v)
Summand(r, m, v) == op = "none" /\ Bind(r, summand(m, v))

\* let r = r + LinComb::summand(m, v)
AddTerm(r, m, v) ==
    /\ op = "none"
    /\ \E ord \in IterationOrders :
           Bind(r, add(IF r = "a" THEN a ELSE b, summand(m, v), ord))

\* let r = LinComb::summand(m, v) + r
TermAdd(r, m, v) ==
    /\ op = "none"
    /\ \E ord \in IterationOrders :
           Bind(r, add(summand(m, v), IF r = "a" THEN a ELSE b, ord))

\* let r = r - LinComb::summand(m, v)
SubTerm(r, m, v) ==
    /\ op = "none"
    /\ \E ord \in IterationOrders :
           Bind(r, sub(IF r = "a" THEN a ELSE b, summand(m, v), ord))

\* a + b
Add ==
    /\ op = "none"
    /\ \E ord \in IterationOrders :
           Results("add", add(a, b, ord), zero, zero, NoQuad, VariableOne, FALSE)
    /\ UNCHANGED <<a, b>>

\* a - b
Sub ==
    /\ op = "none"
    /\ \E ord \in IterationOrders :
           Results("sub", sub(a, b, ord), zero, zero, NoQuad, VariableOne, FALSE)
    /\ UNCHANGED <<a, b>>

\* a + b and b + a
AddBoth ==
    /\ op = "none"
    /\ \E o1, o2 \in IterationOrders :
           Results("add_both", add(a, b, o1), add(b, a, o2), zero, NoQuad, VariableOne, FALSE)
    /\ UNCHANGED <<a, b>>

\* (a + b) - b
AddThenSub ==
    /\ op = "none"
    /\ \E o1, o2 \in IterationOrders :
           Results("add_sub", sub(add(a, b, o1), b, o2), zero, zero, NoQuad, VariableOne, FALSE)
    /\ UNCHANGED <<a, b>>

\* (a - b) + b
SubThenAdd ==
    /\ op = "none"
    /\ \E o1, o2 \in IterationOrders :
           Results("sub_add", add(sub(a, b, o1), b, o2), zero, zero, NoQuad, VariableOne, FALSE)
    /\ UNCHANGED <<a, b>>

\* (a + b) + c and a + (b + c), c a one-term combination
AddAssoc(m, v) ==
    /\ op = "none"
    /\ \E ord \in IterationOrders :
           LET cc == summand(m, v)
           IN  Results("assoc", add(add(a, b, ord), cc, ord), add(a, add(b, cc, ord), ord),
                       cc, NoQuad, VariableOne, FALSE)
    /\ UNCHANGED <<a, b>>

\* a.is_zero()
IsZero ==
    /\ op = "none"
    /\ Results("is_zero", zero, zero, zero, NoQuad, VariableOne, is_zero(a))
    /\ UNCHANGED <<a, b>>

\* QuadComb::from(a)
QuadFromA ==
    /\ op = "none"
    /\ Results("quad_lc", zero, zero, zero, QuadFromLinComb(a), VariableOne, FALSE)
    /\ UNCHANGED <<a, b>>

\* QuadComb::from(v)
QuadFromV(v) ==
    /\ op = "none"
    /\ Results("quad_var", zero, zero, zero, QuadFromVariable(v), v, FALSE)
    /\ UNCHANGED <<a, b>>

\* let r = <the result of the last add or sub>
Store(r) ==
    /\ op \in {"add", "sub", "add_sub", "sub_add"}
    /\ Bind(r, res)

\* the results go out of scope
Drop ==
    /\ op # "none"
    /\ NoResults
    /\ UNCHANGED <<a, b>>

Build(M) ==
    \/ \E r \in {"a", "b"} : Zero(r)
    \/ \E r \in {"a", "b"} : One(r)
    \/ \E r \in {"a", "b"}, v \in Variable : FromVariable(r, v)
    \/ \E r \in {"a", "b"}, m \in M, v \in Variable : Summand(r, m, v)
    \/ \E r \in {"a", "b"}, m \in M, v \in Variable : AddTerm(r, m, v)
    \/ \E r \in {"a", "b"}, m \in M, v \in Variable : TermAdd(r, m, v)
    \/ \E r \in {"a", "b"}, m \in M, v \in Variable : SubTerm(r, m, v)

Apply(M) ==
    \/ Add
    \/ Sub
    \/ AddBoth
    \/ AddThenSub
    \/ SubThenAdd
    \/ \E m \in M, v \in Variable : AddAssoc(m, v)
    \/ IsZero
    \/ QuadFromA
    \/ \E v \in Variable : QuadFromV(v)
    \/ \E r \in {"a", "b"} : Store(r)
    \/ Drop

\* Every value of the public interface, summand with any coefficient
Next == Build(Mults) \/ Apply(Mults)

Spec == Init /\ [][Next]_vars

\* Only zero(), one(), from(variable), and summand with a coefficient that
\* is not zero in the field
NextCanonical == Build(NonZeroMults) \/ Apply(NonZeroMults)

SpecCanonical == Init /\ [][NextCanonical]_vars

----------------------------------------------------------------------------
\* Properties

\* The coefficient of v in the sum lc represents, an absent key read as 0
Coeff(lc, v) == IF v \in DOMAIN lc THEN lc[v] ELSE 0

\* lc holds no entry whose coefficient is the additive identity
Canonical(lc) == \A k \in DOMAIN lc : lc[k] # 0

\* lc holds an entry whose coefficient is the additive identity
HasZeroEntry(lc) == \E k \in DOMAIN lc : lc[k] = 0

\* The one-term mapping v -> coefficient n
Term(n, v) == [k \in {v} |-> n]

TypeOK ==
    /\ \A x \in {a, b, c, res, res2, quad.left, quad.right} :
           DOMAIN x \subseteq Variable /\ \A k \in DOMAIN x : x[k] \in Field
    /\ op \in {"none", "add", "sub", "add_both", "add_sub", "sub_add", "assoc",
               "is_zero", "quad_lc", "quad_var"}
    /\ qvar \in Variable
    /\ flag \in BOOLEAN

\* C1: the result of a.add(b) and of a.subtract(b) holds no entry with a zero
\* coefficient, whatever the operands (zero-coefficient summands included).
C1_ArithResultHasNoZeroEntry ==
    op \in {"add", "sub"} => Canonical(res)

\* C2: for every a, a.subtract(a) is the empty mapping zero().
C2_SubSelfIsZero ==
    (op = "sub" /\ a = b) => res = EmptyMap

\* C2 witness: a - a was computed for an a of two terms, one of them an
\* explicit zero entry.
C2_Witness ==
    /\ op = "sub"
    /\ a = b
    /\ Cardinality(DOMAIN a) >= 2
    /\ HasZeroEntry(a)
    /\ ~Canonical(a) /\ \E k \in DOMAIN a : a[k] # 0

\* C3: zero().add(x) == x and x.add(zero()) == x for every constructible x.
C3_AddZeroIsIdentity ==
    /\ (op = "add" /\ a = EmptyMap) => res = b
    /\ (op = "add" /\ b = EmptyMap) => res = a

\* C4: a.add(b) == b.add(a) for all constructible a and b.
C4_AddCommutes ==
    op = "add_both" => res = res2

\* C5: a.add(b).add(c) == a.add(b.add(c)) for all constructible a, b, c.
C5_AddAssociates ==
    op = "assoc" => res = res2

\* C6: for every variable v of either operand a.add(b) maps v to the field
\* sum a[v] + b[v] when it is not zero and has no entry for v when it is; the
\* result has no other key; summand(1, v).add(summand(1, v)) == summand(2, v).
C6_AddMatchesReference ==
    op = "add" =>
        /\ \A v \in (DOMAIN a) \cup (DOMAIN b) :
               LET s == (Coeff(a, v) + Coeff(b, v)) % Prime
               IN  IF s # 0 THEN v \in DOMAIN res /\ res[v] = s
                   ELSE v \notin DOMAIN res
        /\ DOMAIN res \subseteq (DOMAIN a) \cup (DOMAIN b)
        /\ \A v \in Variable :
               (a = Term(1 % Prime, v) /\ b = Term(1 % Prime, v)) => res = Term(2 % Prime, v)

\* C7: for every variable v of either operand a.subtract(b) maps v to the
\* field difference a[v] - b[v] when it is not zero and has no entry for v
\* when it is; summand(3, v).subtract(summand(3, v)) has no entry for v.
C7_SubMatchesReference ==
    op = "sub" =>
        /\ \A v \in (DOMAIN a) \cup (DOMAIN b) :
               LET d == (Coeff(a, v) + Prime - Coeff(b, v)) % Prime
               IN  IF d # 0 THEN v \in DOMAIN res /\ res[v] = d
                   ELSE v \notin DOMAIN res
        /\ \A v \in Variable :
               (a = Term(3 % Prime, v) /\ b = Term(3 % Prime, v)) => v \notin DOMAIN res

\* C8: QuadComb::from(lc) is the pair (one(), lc), lc unchanged, for every lc;
\* QuadComb::from(v) is the pair (one(), summand(1, v)).
C8_QuadFromIsOneTimesLc ==
    /\ op = "quad_lc" =>
           quad = [left |-> Term(1 % Prime, VariableOne), right |-> a]
    /\ op = "quad_var" =>
           quad = [left |-> Term(1 % Prime, VariableOne), right |-> Term(1 % Prime, qvar)]

\* C8 witness: a sum of several terms was lifted.
C8_Witness ==
    /\ op = "quad_lc"
    /\ Cardinality(DOMAIN a) >= 2
    /\ quad.right = a

\* C9: every combination built from zero(), one(), from(variable) and
\* summand with a nonzero coefficient by add and subtract holds no zero
\* entry; is_zero() is true exactly when every coefficient of the sum is
\* zero; the empty mapping is the only representation of the zero sum.
C9_CanonicalFormIsClosed ==
    /\ \A x \in {a, b, c, res, res2} : Canonical(x)
    /\ op = "is_zero" => (flag <=> \A v \in Variable : Coeff(a, v) = 0)
    /\ \A x \in {a, b, c, res, res2} :
           (\A v \in Variable : Coeff(x, v) = 0) => x = EmptyMap

\* C9 witness: two combinations of several terms cancelled to the empty
\* mapping under add.
C9_Witness ==
    /\ op = "add"
    /\ Cardinality(DOMAIN a) >= 2
    /\ DOMAIN a = DOMAIN b
    /\ res = EmptyMap

\* C10: for a and b without zero entries, a.add(b).subtract(b) == a and
\* a.subtract(b).add(b) == a.
C10_SubUndoesAdd ==
    (Canonical(a) /\ Canonical(b)) =>
        /\ op = "add_sub" => res = a
        /\ op = "sub_add" => res = a

\* C10 witness: a + b removed a key of a (the coefficients cancelled) and
\* the subtraction of b brought it back.
C10_Witness ==
    /\ op = "add_sub"
    /\ Canonical(a) /\ Canonical(b)
    /\ Cardinality(DOMAIN a) >= 2
    /\ \E k \in (DOMAIN a) \cap (DOMAIN b) : (a[k] + b[k]) % Prime = 0
    /\ res = a

----------------------------------------------------------------------------
\* The laws of C3 to C7 on operands without zero entries

\* zero() is the identity of add on canonical operands
AddZeroIsIdentityOnCanonical ==
    (Canonical(a) /\ Canonical(b)) => C3_AddZeroIsIdentity

\* add commutes on canonical operands
AddCommutesOnCanonical ==
    (Canonical(a) /\ Canonical(b)) => C4_AddCommutes

\* add associates on canonical operands
AddAssociatesOnCanonical ==
    (Canonical(a) /\ Canonical(b) /\ Canonical(c)) => C5_AddAssociates

\* add and sub match the per-key reference when the left operand is canonical
ArithMatchesReferenceOnCanonical ==
    Canonical(a) =>
        /\ C1_ArithResultHasNoZeroEntry
        /\ C6_AddMatchesReference
        /\ C7_SubMatchesReference

\* the result of add and sub does not depend on the iteration order
ResultIgnoresIterationOrder ==
    /\ op = "add" => \A ord \in IterationOrders : res = add(a, b, ord)
    /\ op = "sub" => \A ord \in IterationOrders : res = sub(a, b, ord)

====
